---- MODULE Spec2Model ----
(***************************************************************************)
(* Model of ibroadcast-uploader.py: the Uploader object, its dedup pass    *)
(* (check_md5) over the local md5 cache and the remote md5 list, and the   *)
(* thread pool that prepare_upload drives.                                 *)
(***************************************************************************)
EXTENDS Integers, Sequences, FiniteSets, TLC

\* ------------------------------------------------------------------ bounds
\* paths the model knows
MaxFiles == 7
\* candidates in a directory of arbitrary content
MaxDir == 2
\* invocations of the script
MaxRuns == 2
\* entries of a directory tree of arbitrary shape
MaxNodes == 3

\* ------------------------------------------------------- value domains
Paths == 1..MaxFiles
Contents == {"ca", "cb"}
Hashes == {"ha", "hb"}
Unreadable == "unreadable"
NoEntry == "none"
ParallelChoices == 1..6

\* hashlib.md5 over the whole content, hex digest
Md5(c) == IF c = "ca" THEN "ha" ELSE "hb"

VARIABLES
  pc,              \* position of the main thread in process()/prepare_upload()
  run,             \* number of the current invocation of the script
  parallel_uploads, \* args.parallel_uploads
  no_cache,        \* self.no_cache
  reupload,        \* self.reupload
  tree,            \* the entries under the directory
  directory,       \* the supported, not hidden paths under the directory
  content,         \* content of each path, or Unreadable
  md5_file,        \* ~/.ibroadcast_md5s
  remote,          \* md5 list the server answers with
  files,           \* self.files
  skipped_files,   \* self.skipped_files
  failed_files,    \* self.failed_files
  md5_int,         \* self.md5_int
  md5_ext,         \* self.md5_ext
  file_list,       \* check_md5: the copy self.files[:] the loop walks
  pos,             \* check_md5: number of loop iterations done
  threads,         \* prepare_upload: threads
  total_files,     \* prepare_upload: total_files
  not_skipped_files, \* prepare_upload: not_skipped_files
  submitted,       \* prepare_upload: number of exe.submit calls done
  task,            \* state of the pool's work item for each path
  report,          \* the numbers of the Uploaded/Skipped/Failed/Total line
  cache_writes,    \* history: writes of ~/.ibroadcast_md5s in this run
  md5_calls,       \* history: calcmd5 calls per path in this run
  resolved,        \* history: file_md5 of each path in this run
  loaded_int,      \* history: md5_int as loaded by __load_md5_int
  prev_skipped,    \* history: skipped_files at the end of the previous run
  submit_calls,    \* history: exe.submit calls per path in this run
  upload_calls,    \* history: upload() calls per path in this run
  ext_loads        \* history: __load_md5_ext calls in this run

vars == <<pc, run, parallel_uploads, no_cache, reupload, tree, directory,
          content,
          md5_file, remote, files,
          skipped_files, failed_files, md5_int, md5_ext, file_list, pos,
          threads, total_files, not_skipped_files, submitted, task, report,
          cache_writes, md5_calls, resolved, loaded_int, prev_skipped,
                 submit_calls, upload_calls, ext_loads>>

env == <<parallel_uploads, no_cache, reupload, tree, directory, content,
         md5_file, remote>>

\* ---------------------------------------------------------------- helpers
RECURSIVE Count(_, _)
Count(s, x) ==
  IF s = <<>> THEN 0
  ELSE (IF Head(s) = x THEN 1 ELSE 0) + Count(Tail(s), x)

Elems(s) == {s[k] : k \in 1..Len(s)}

\* a remove that leaves the list as it is
Remove_Nothing(s, x) == s

\* list.remove(x): drops the first occurrence of x
RECURSIVE Remove(_, _)
Remove(s, x) ==
  IF s = <<>> THEN <<>>
  ELSE IF Head(s) = x THEN Tail(s)
  ELSE <<Head(s)>> \o Remove(Tail(s), x)

Max(a, b) == IF a >= b THEN a ELSE b

EmptyCache == [p \in Paths |-> NoEntry]
NoTasks == [p \in Paths |-> "none"]
NoCalls == [p \in Paths |-> 0]
NoReport == [uploaded |-> 0, skipped |-> 0, failed |-> 0, total |-> 0]

\* a directory of n candidates: paths 1..n exist, the others do not
DirOf(n) == [k \in 1..n |-> k]
ContentsOf(n) ==
  {[p \in Paths |-> IF p <= n THEN f[p] ELSE Unreadable] :
     f \in [1..n -> Contents \cup {Unreadable}]}
CacheFilesOf(n) ==
  {[p \in Paths |-> IF p <= n THEN f[p] ELSE NoEntry] :
     f \in [1..n -> Hashes \cup {NoEntry}]}
RemoteChoices == {{}, {"ha"}}

\* ------------------------------------------------------------ load_files()
\* the directory given to the script
Root == 0
Absent == [kind |-> "absent", name |-> <<>>, parent |-> Root]

\* the extensions get_supported_types() has stored in self.supported
supported == {<<".", "m", "p", "3">>, <<".", "f", "l", "a", "c">>}

\* a directory of n regular files 1.mp3 .. n.mp3 and nothing else
FlatTree(n) ==
  [p \in Paths |->
     IF p <= n
     THEN [kind |-> "file", name |-> <<ToString(p), ".", "m", "p", "3">>,
           parent |-> Root]
     ELSE Absent]

\* a loop without the test for hidden entries
startswith_dot_Never(name) == FALSE

\* filename.startswith('.')
startswith_dot(name) == Len(name) > 0 /\ name[1] = "."

\* os.path.splitext(...)[1]: from the last dot on, unless only dots precede it
splitext(name) ==
  LET dots == {i \in 1..Len(name) : name[i] = "."}
      last == IF dots = {} THEN 0
              ELSE CHOOSE i \in dots : \A j \in dots : j <= i
  IN IF last > 0 /\ \E i \in 1..(last - 1) : name[i] # "."
     THEN SubSeq(name, last, Len(name))
     ELSE <<>>

\* line 204: the extension test, made for whatever the entry is
Matches(t, k) == splitext(t[k].name) \in supported

\* load_files(dir): what the loop of lines 196-210 appends to self.files for
\* the entries k, k+1, .. of dir (glob lists them in the order of their
\* numbers; an entry has a larger number than the directory it is in)
RECURSIVE load_files(_, _, _)
load_files(t, dir, k) ==
  IF k > MaxFiles THEN <<>>
  ELSE (IF t[k].kind = "absent" \/ t[k].parent # dir \/ startswith_dot(t[k].name)
        THEN <<>>
        ELSE (IF Matches(t, k) THEN <<k>> ELSE <<>>)
             \o (IF t[k].kind = "dir" THEN load_files(t, k, k + 1) ELSE <<>>))
       \o load_files(t, dir, k + 1)

\* the fields of a new Uploader object (__init__) and of the history
Fresh ==
  /\ files = <<>>
  /\ skipped_files = <<>>
  /\ failed_files = <<>>
  /\ md5_int = EmptyCache
  /\ md5_ext = {}
  /\ file_list = <<>>
  /\ pos = 0
  /\ threads = 0
  /\ total_files = 0
  /\ not_skipped_files = 0
  /\ submitted = 0
  /\ task = NoTasks
  /\ report = NoReport
  /\ cache_writes = 0
  /\ md5_calls = NoCalls
  /\ resolved = EmptyCache
  /\ loaded_int = EmptyCache
  /\ submit_calls = NoCalls
  /\ upload_calls = NoCalls
  /\ ext_loads = 0

\* any options, any directory of up to MaxDir candidates, any md5 file
Init ==
  /\ pc = "process"
  /\ run = 1
  /\ parallel_uploads \in ParallelChoices
  /\ no_cache \in BOOLEAN
  /\ reupload \in BOOLEAN
  /\ \E n \in 0..MaxDir :
       /\ tree = FlatTree(n)
       /\ directory = DirOf(n)
       /\ content \in ContentsOf(n)
       /\ md5_file \in CacheFilesOf(n)
  /\ remote \in RemoteChoices
  /\ Fresh
  /\ prev_skipped = <<>>

\* up to MaxFiles new files, none of them on the server, default options
\* apart from the number of parallel uploads
PoolInit ==
  /\ pc = "process"
  /\ run = 1
  /\ parallel_uploads \in ParallelChoices
  /\ no_cache = FALSE
  /\ reupload = FALSE
  /\ \E n \in 1..MaxFiles :
       /\ tree = FlatTree(n)
       /\ directory = DirOf(n)
       /\ content = [p \in Paths |-> IF p <= n THEN "cb" ELSE Unreadable]
  /\ md5_file = EmptyCache
  /\ remote = {"ha"}
  /\ Fresh
  /\ prev_skipped = <<>>

\* the default of --parallel-uploads
DefaultParallel == 3

\* names of the entries of a tree
NameChoices ==
  {<<"a", ".", "m", "p", "3">>,
   <<"b", ".", "f", "l", "a", "c">>,
   <<".", "h", "i", "d", "d", "e", "n", ".", "m", "p", "3">>,
   <<"c", ".", "t", "x", "t">>,
   <<"a", ".", "M", "P", "3">>}

NodeChoices ==
  {Absent} \cup
  {[kind |-> k, name |-> nm, parent |-> q] :
     k \in {"file", "dir"}, nm \in NameChoices, q \in 0..(MaxNodes - 1)}

\* the entries are numbered without gaps, an entry lies in the root or in a
\* directory with a smaller number, and no two entries of a directory have
\* the same name
WellFormed(t) ==
  \A k \in 1..MaxNodes :
    /\ (t[k] = Absent) => \A j \in k..MaxNodes : t[j] = Absent
    /\ (t[k] # Absent) =>
         /\ t[k].parent = Root
              \/ (t[k].parent < k /\ t[t[k].parent].kind = "dir")
         /\ \A j \in 1..(k - 1) :
              t[j] # Absent =>
                (t[j].parent # t[k].parent \/ t[j].name # t[k].name)

ScanTrees ==
  {[p \in Paths |-> IF p <= MaxNodes THEN t[p] ELSE Absent] :
     t \in {u \in [1..MaxNodes -> NodeChoices] : WellFormed(u)}}

\* a.mp3, b.flac, .hidden.mp3 and c.txt in the root
ScenarioNames ==
  <<<<"a", ".", "m", "p", "3">>,
    <<"b", ".", "f", "l", "a", "c">>,
    <<".", "h", "i", "d", "d", "e", "n", ".", "m", "p", "3">>,
    <<"c", ".", "t", "x", "t">>>>
ScenarioTree ==
  [p \in Paths |->
     IF p <= Len(ScenarioNames)
     THEN [kind |-> "file", name |-> ScenarioNames[p], parent |-> Root]
     ELSE Absent]

\* any tree of up to MaxNodes entries, or the one of the scenario; nothing
\* can be read, no md5 file, nothing on the server
ScanInit ==
  /\ pc = "process"
  /\ run = 1
  /\ parallel_uploads = DefaultParallel
  /\ no_cache = FALSE
  /\ reupload = FALSE
  /\ tree \in ScanTrees \cup {ScenarioTree}
  /\ directory = load_files(tree, Root, 1)
  /\ content = [p \in Paths |-> Unreadable]
  /\ md5_file = EmptyCache
  /\ remote = {}
  /\ Fresh
  /\ prev_skipped = <<>>

\* as Init, with the default number of parallel uploads and an md5 file that
\* may also hold the md5 of a path outside the directory
CacheInit ==
  /\ pc = "process"
  /\ run = 1
  /\ parallel_uploads = DefaultParallel
  /\ no_cache \in BOOLEAN
  /\ reupload \in BOOLEAN
  /\ \E n \in 0..MaxDir :
       /\ tree = FlatTree(n)
       /\ directory = DirOf(n)
       /\ content \in ContentsOf(n)
       /\ md5_file \in CacheFilesOf(n + 1)
  /\ remote \in RemoteChoices
  /\ Fresh
  /\ prev_skipped = <<>>

\* ------------------------------------------------------------- process()
\* login() and get_supported_types(): a ValueError ends process(), otherwise
\* the lists are created empty
Login ==
  /\ pc = "process"
  /\ \E ok \in BOOLEAN :
       pc' = IF ok THEN "load_files" ELSE "aborted"
  /\ files' = <<>>
  /\ skipped_files' = <<>>
  /\ failed_files' = <<>>
  /\ UNCHANGED <<run, env, md5_int, md5_ext, file_list, pos, threads,
                 total_files, not_skipped_files, submitted, task, report,
                 cache_writes, md5_calls, resolved, loaded_int, prev_skipped,
                 submit_calls, upload_calls, ext_loads>>

\* load_files(): the candidates found under the directory
LoadFiles ==
  /\ pc = "load_files"
  /\ files' = files \o load_files(tree, Root, 1)
  /\ pc' = "confirm"
  /\ UNCHANGED <<run, env, skipped_files, failed_files, md5_int, md5_ext,
                 file_list, pos, threads, total_files, not_skipped_files,
                 submitted, task, report, cache_writes, md5_calls, resolved,
                 loaded_int, prev_skipped,
                 submit_calls, upload_calls, ext_loads>>

\* confirm(): prepare_upload() runs only when it returns True
Confirm ==
  /\ pc = "confirm"
  /\ \E yes \in BOOLEAN :
       pc' = IF yes THEN "prepare_upload" ELSE "declined"
  /\ UNCHANGED <<run, env, files, skipped_files, failed_files, md5_int,
                 md5_ext, file_list, pos, threads, total_files,
                 not_skipped_files, submitted, task, report, cache_writes,
                 md5_calls, resolved, loaded_int, prev_skipped,
                 submit_calls, upload_calls, ext_loads>>

\* prepare_upload(), up to the call of check_md5()
PrepareUpload ==
  /\ pc = "prepare_upload"
  /\ threads' = parallel_uploads
  /\ total_files' = Len(files)
  /\ pc' = "load_md5"
  /\ UNCHANGED <<run, env, files, skipped_files, failed_files, md5_int,
                 md5_ext, file_list, pos, not_skipped_files, submitted, task,
                 report, cache_writes, md5_calls, resolved, loaded_int,
                 prev_skipped,
                 submit_calls, upload_calls, ext_loads>>

\* a check_md5 that starts from an empty cache when --no-cache is given
LoadMd5_NoCacheSkipsLoad ==
  /\ pc = "load_md5"
  /\ md5_int' = IF no_cache THEN EmptyCache ELSE md5_file
  /\ loaded_int' = md5_file
  /\ ext_loads' = ext_loads + 1
  /\ \E ok \in BOOLEAN, bar \in BOOLEAN :
       IF ~ok
       THEN /\ pc' = "server_error"
            /\ UNCHANGED <<md5_ext, file_list>>
       ELSE /\ md5_ext' = remote
            /\ file_list' = files
            /\ pc' = IF bar /\ Len(files) = 0
                     THEN "zero_division"
                     ELSE "check_md5"
  /\ UNCHANGED <<run, env, files, skipped_files, failed_files, pos, threads,
                 total_files, not_skipped_files, submitted, task, report,
                 cache_writes, md5_calls, resolved, prev_skipped,
                 submit_calls, upload_calls>>

\* check_md5() up to the first turn of its loop: __load_md5_int(),
\* __load_md5_ext(), the copy of the list and, unless the script is silent or
\* verbose, the progress bar around it, whose show(0) divides by len(it)
LoadMd5 ==
  /\ pc = "load_md5"
  /\ md5_int' = md5_file
  /\ loaded_int' = md5_file
  /\ ext_loads' = ext_loads + 1
  /\ \E ok \in BOOLEAN, bar \in BOOLEAN :
       IF ~ok
       THEN /\ pc' = "server_error"     \* ServerError, not caught
            /\ UNCHANGED <<md5_ext, file_list>>
       ELSE /\ md5_ext' = remote
            /\ file_list' = files
            /\ pc' = IF bar /\ Len(files) = 0
                     THEN "zero_division"  \* ZeroDivisionError, not caught
                     ELSE "check_md5"
  /\ UNCHANGED <<run, env, files, skipped_files, failed_files, pos, threads,
                 total_files, not_skipped_files, submitted, task, report,
                 cache_writes, md5_calls, resolved, prev_skipped,
                 submit_calls, upload_calls>>

\* ------------------------------------------------------------- check_md5()
\* a test that never takes the cached md5
UsesCache_Never(filename, cache) == FALSE

\* line 302: the cached md5 is used
UsesCache(filename, cache) ==
  (~no_cache) /\ cache[filename] # NoEntry

\* calcmd5(): opening or reading the file may raise
CalcFails(filename) == content[filename] = Unreadable
calcmd5(filename) == Md5(content[filename])

\* a resolution that does not store the md5 it calculated
ResolveHash_NoStore(filename, cache) ==
  IF UsesCache(filename, cache)
  THEN [file_md5 |-> cache[filename], cache |-> cache, read |-> FALSE]
  ELSE [file_md5 |-> calcmd5(filename), cache |-> cache, read |-> TRUE]

\* lines 302-312: file_md5, the cache afterwards and whether the file was read
ResolveHash(filename, cache) ==
  IF UsesCache(filename, cache)
  THEN [file_md5 |-> cache[filename], cache |-> cache, read |-> FALSE]
  ELSE [file_md5 |-> calcmd5(filename),
        cache |-> [cache EXCEPT ![filename] = calcmd5(filename)],
        read |-> TRUE]

\* a test that forgets the reupload option
IsSkipped_IgnoresReupload(file_md5) == file_md5 \in md5_ext

\* line 314
IsSkipped(file_md5) == file_md5 \in md5_ext /\ reupload = FALSE

\* a loop that asks the server for its md5 list again in every turn
CheckStep_Refetch ==
  /\ pc = "check_md5"
  /\ pos < Len(file_list)
  /\ md5_ext' = remote
  /\ ext_loads' = ext_loads + 1
  /\ LET filename == file_list[pos + 1]
         r == ResolveHash(filename, md5_int)
     IN IF (~UsesCache(filename, md5_int)) /\ CalcFails(filename)
        THEN /\ pc' = "os_error"         \* OSError leaves process()
             /\ md5_calls' = [md5_calls EXCEPT ![filename] = @ + 1]
             /\ UNCHANGED <<files, skipped_files, md5_int, resolved, pos>>
        ELSE /\ md5_int' = r.cache
             /\ resolved' = [resolved EXCEPT ![filename] = r.file_md5]
             /\ md5_calls' = [md5_calls EXCEPT
                                ![filename] = IF r.read THEN @ + 1 ELSE @]
             /\ IF IsSkipped(r.file_md5)
                THEN /\ skipped_files' = Append(skipped_files, filename)
                     /\ files' = Remove(files, filename)
                ELSE UNCHANGED <<files, skipped_files>>
             /\ pos' = pos + 1
             /\ pc' = pc
  /\ UNCHANGED <<run, env, failed_files, file_list, threads,
                 total_files, not_skipped_files, submitted, task, report,
                 cache_writes, loaded_int, prev_skipped,
                 submit_calls, upload_calls>>

\* one iteration of the loop of check_md5 (lines 293-330)
CheckStep ==
  /\ pc = "check_md5"
  /\ pos < Len(file_list)
  /\ LET filename == file_list[pos + 1]
         r == ResolveHash(filename, md5_int)
     IN IF (~UsesCache(filename, md5_int)) /\ CalcFails(filename)
        THEN /\ pc' = "os_error"         \* OSError leaves process()
             /\ md5_calls' = [md5_calls EXCEPT ![filename] = @ + 1]
             /\ UNCHANGED <<files, skipped_files, md5_int, resolved, pos>>
        ELSE /\ md5_int' = r.cache
             /\ resolved' = [resolved EXCEPT ![filename] = r.file_md5]
             /\ md5_calls' = [md5_calls EXCEPT
                                ![filename] = IF r.read THEN @ + 1 ELSE @]
             /\ IF IsSkipped(r.file_md5)
                THEN /\ skipped_files' = Append(skipped_files, filename)
                     /\ files' = Remove(files, filename)
                ELSE UNCHANGED <<files, skipped_files>>
             /\ pos' = pos + 1
             /\ pc' = pc
  /\ UNCHANGED <<run, env, failed_files, md5_ext, file_list, threads,
                 total_files, not_skipped_files, submitted, task, report,
                 cache_writes, loaded_int, prev_skipped,
                 submit_calls, upload_calls, ext_loads>>

\* a check_md5 that returns early, without writing, when nothing is left
WriteCache_NotWhenIdle ==
  /\ pc = "check_md5"
  /\ pos = Len(file_list)
  /\ md5_file' = IF Len(files) > 0 THEN md5_int ELSE md5_file
  /\ cache_writes' = IF Len(files) > 0 THEN cache_writes + 1 ELSE cache_writes
  /\ not_skipped_files' = Len(files)
  /\ pc' = IF Len(files) > 0 THEN "submit" ELSE "report"
  /\ UNCHANGED <<run, parallel_uploads, no_cache, reupload, tree, directory,
                 content, remote, files, skipped_files, failed_files,
                 md5_int, md5_ext, file_list, pos, threads, total_files,
                 submitted, task, report, md5_calls, resolved, loaded_int,
                 prev_skipped,
                 submit_calls, upload_calls, ext_loads>>

\* lines 332-333, and the return to prepare_upload (lines 355-357)
WriteCache ==
  /\ pc = "check_md5"
  /\ pos = Len(file_list)
  /\ md5_file' = md5_int
  /\ cache_writes' = cache_writes + 1
  /\ not_skipped_files' = Len(files)
  /\ pc' = IF Len(files) > 0 THEN "submit" ELSE "report"
  /\ UNCHANGED <<run, parallel_uploads, no_cache, reupload, tree, directory,
                 content, remote, files, skipped_files, failed_files,
                 md5_int, md5_ext, file_list, pos, threads, total_files,
                 submitted, task, report, md5_calls, resolved, loaded_int,
                 prev_skipped,
                 submit_calls, upload_calls, ext_loads>>

\* ------------------------------------------------- the ThreadPoolExecutor
Running == {p \in Paths : task[p] = "running"}
Pending == {p \in Paths : task[p] \in {"queued", "running"}}

\* a loop that takes the i-th file of the list as it was before the dedup
SubmitTarget_FromCopy(i) == file_list[i + 1]

\* line 360: the argument of the i-th submit
SubmitTarget(i) == files[i + 1]

\* line 360: one exe.submit(self.upload, self.files[i])
Submit ==
  /\ pc = "submit"
  /\ submitted < not_skipped_files
  /\ task' = [task EXCEPT ![SubmitTarget(submitted)] = "queued"]
  /\ submit_calls' = [submit_calls EXCEPT ![SubmitTarget(submitted)] = @ + 1]
  /\ submitted' = submitted + 1
  /\ UNCHANGED <<pc, run, env, files, skipped_files, failed_files, md5_int,
                 md5_ext, file_list, pos, threads, total_files,
                 not_skipped_files, report, cache_writes, md5_calls,
                 resolved, loaded_int, prev_skipped, upload_calls, ext_loads>>

\* a pool that lets one work item more than max_workers run
WorkerFree_OneMore == Cardinality(Running) <= threads

\* max_workers=threads: a work item starts only on a free worker
WorkerFree == Cardinality(Running) < threads

\* the work queue is first in, first out
NextQueued(p) ==
  /\ task[p] = "queued"
  /\ \A k \in 1..Len(files) :
       task[files[k]] = "queued" =>
         \E j \in 1..k : files[j] = p

\* a worker takes the next work item and enters upload()
UploadStart(p) ==
  /\ NextQueued(p)
  /\ WorkerFree
  /\ task' = [task EXCEPT ![p] = "running"]
  /\ upload_calls' = [upload_calls EXCEPT ![p] = @ + 1]
  /\ UNCHANGED <<pc, run, env, files, skipped_files, failed_files, md5_int,
                 md5_ext, file_list, pos, threads, total_files,
                 not_skipped_files, submitted, report, cache_writes,
                 md5_calls, resolved, loaded_int, prev_skipped, submit_calls,
                 ext_loads>>

\* the ways a work item ends: upload() returned, raised ValueError after
\* result false, raised ServerError, or open() raised
Terminal == {"uploaded", "rejected", "servererror", "oserror"}

\* a pool that drops the waiting work items when one fails
TaskDone_CancelQueued(p, outcome) ==
  [q \in Paths |->
     IF q = p THEN outcome
     ELSE IF outcome # "uploaded" /\ task[q] = "queued" THEN "cancelled"
     ELSE task[q]]

\* the worker stores the outcome in the Future and goes on with the queue
TaskDone(p, outcome) == [task EXCEPT ![p] = outcome]

\* an append that is lost when another upload is in flight
RecordFailed_Racy(p) ==
  IF Cardinality(Running) > 1 THEN failed_files ELSE Append(failed_files, p)

\* line 406: list.append, one step under the interpreter lock
RecordFailed(p) == Append(failed_files, p)

\* an upload() that also stores the md5 of what it has sent
UploadFinish_TouchesCache(p) ==
  /\ task[p] = "running"
  /\ IF content[p] = Unreadable
     THEN /\ task' = TaskDone(p, "oserror")
          /\ UNCHANGED <<failed_files, md5_int>>
     ELSE \E response \in {"ok", "false", "bad_status"} :
            CASE response = "bad_status" ->
                   /\ task' = TaskDone(p, "servererror")
                   /\ UNCHANGED <<failed_files, md5_int>>
              [] response = "false" ->
                   /\ failed_files' = RecordFailed(p)
                   /\ task' = TaskDone(p, "rejected")
                   /\ UNCHANGED md5_int
              [] OTHER ->
                   /\ task' = TaskDone(p, "uploaded")
                   /\ md5_int' = [md5_int EXCEPT ![p] = calcmd5(p)]
                   /\ UNCHANGED failed_files
  /\ UNCHANGED <<pc, run, env, files, skipped_files, md5_ext, file_list, pos,
                 threads, total_files, not_skipped_files, submitted, report,
                 cache_writes, md5_calls, resolved, loaded_int, prev_skipped,
                 submit_calls, upload_calls, ext_loads>>

\* upload() returns or raises (lines 376-407)
UploadFinish(p) ==
  /\ task[p] = "running"
  /\ IF content[p] = Unreadable
     THEN /\ task' = TaskDone(p, "oserror")
          /\ UNCHANGED failed_files
     ELSE \E response \in {"ok", "false", "bad_status"} :
            CASE response = "bad_status" ->
                   /\ task' = TaskDone(p, "servererror")
                   /\ UNCHANGED failed_files
              [] response = "false" ->
                   /\ failed_files' = RecordFailed(p)
                   /\ task' = TaskDone(p, "rejected")
              [] OTHER ->
                   /\ task' = TaskDone(p, "uploaded")
                   /\ UNCHANGED failed_files
  /\ UNCHANGED <<pc, run, env, files, skipped_files, md5_int, md5_ext,
                 file_list, pos, threads, total_files, not_skipped_files,
                 submitted, report, cache_writes, md5_calls, resolved,
                 loaded_int, prev_skipped,
                 submit_calls, upload_calls, ext_loads>>

\* a shutdown that does not wait
Joined_NoWait == TRUE

\* line 362 and the exit of the with block: returns once no work is left
Joined == Pending = {}

Shutdown ==
  /\ pc = "submit"
  /\ submitted = not_skipped_files
  /\ Joined
  /\ pc' = "report"
  /\ UNCHANGED <<run, env, files, skipped_files, failed_files, md5_int,
                 md5_ext, file_list, pos, threads, total_files,
                 not_skipped_files, submitted, task, report, cache_writes,
                 md5_calls, resolved, loaded_int, prev_skipped,
                 submit_calls, upload_calls, ext_loads>>

\* a report whose total is taken after the dedup
ReportOf_TotalAfterDedup(total, skipped, failed) ==
  [uploaded |-> Max(total - skipped - failed, 0),
   skipped |-> skipped, failed |-> failed, total |-> total - skipped]

\* a report that does not subtract the skipped files
ReportOf_SkippedNotSubtracted(total, skipped, failed) ==
  [uploaded |-> Max(total - failed, 0),
   skipped |-> skipped, failed |-> failed, total |-> total]

\* lines 364-367
ReportOf(total, skipped, failed) ==
  [uploaded |-> Max(total - skipped - failed, 0),
   skipped |-> skipped, failed |-> failed, total |-> total]

Report ==
  /\ pc = "report"
  /\ report' = ReportOf(total_files, Len(skipped_files), Len(failed_files))
  /\ pc' = "done"
  /\ UNCHANGED <<run, env, files, skipped_files, failed_files, md5_int,
                 md5_ext, file_list, pos, threads, total_files,
                 not_skipped_files, submitted, task, cache_writes,
                 md5_calls, resolved, loaded_int, prev_skipped,
                 submit_calls, upload_calls, ext_loads>>

\* the script is started again: same options, directory and server list,
\* the md5 file as the previous run left it
NewRun ==
  /\ pc = "done"
  /\ run < MaxRuns
  /\ run' = run + 1
  /\ prev_skipped' = skipped_files
  /\ pc' = "process"
  /\ files' = <<>>
  /\ skipped_files' = <<>>
  /\ failed_files' = <<>>
  /\ md5_int' = EmptyCache
  /\ md5_ext' = {}
  /\ file_list' = <<>>
  /\ pos' = 0
  /\ threads' = 0
  /\ total_files' = 0
  /\ not_skipped_files' = 0
  /\ submitted' = 0
  /\ task' = NoTasks
  /\ report' = NoReport
  /\ cache_writes' = 0
  /\ md5_calls' = NoCalls
  /\ resolved' = EmptyCache
  /\ loaded_int' = EmptyCache
  /\ submit_calls' = NoCalls
  /\ upload_calls' = NoCalls
  /\ ext_loads' = 0
  /\ UNCHANGED env

\* one invocation of the script
Run ==
  \/ Login
  \/ LoadFiles
  \/ Confirm
  \/ PrepareUpload
  \/ LoadMd5
  \/ CheckStep
  \/ WriteCache
  \/ Submit
  \/ \E p \in Paths : UploadStart(p)
  \/ \E p \in Paths : UploadFinish(p)
  \/ Shutdown
  \/ Report

Next == Run \/ NewRun

Spec == Init /\ [][Next]_vars

\* one invocation with up to MaxFiles uploads
PoolSpec == PoolInit /\ [][Run]_vars

\* the script up to the question whether to upload, over any tree
ScanRun == Login \/ LoadFiles \/ Confirm
ScanSpec == ScanInit /\ [][ScanRun]_vars

\* runs over md5 files that know more paths than the directory holds
CacheSpec == CacheInit /\ [][Next]_vars

\* the main thread and the workers of the pool keep running; the user need
\* not start the script again
Fairness ==
  /\ WF_vars(Login \/ LoadFiles \/ Confirm \/ PrepareUpload \/ LoadMd5
               \/ CheckStep \/ WriteCache \/ Submit \/ Shutdown \/ Report)
  /\ \A p \in Paths : WF_vars(UploadStart(p))
  /\ \A p \in Paths : WF_vars(UploadFinish(p))

\* the default cache option, a server that knows one of the two contents
FairInit ==
  /\ pc = "process"
  /\ run = 1
  /\ parallel_uploads \in ParallelChoices
  /\ no_cache = FALSE
  /\ reupload \in BOOLEAN
  /\ \E n \in 0..MaxDir :
       /\ tree = FlatTree(n)
       /\ directory = DirOf(n)
       /\ content \in ContentsOf(n)
       /\ md5_file \in CacheFilesOf(n)
  /\ remote = {"ha"}
  /\ Fresh
  /\ prev_skipped = <<>>

FairSpec == FairInit /\ [][Run]_vars /\ Fairness

\* ----------------------------------------------------------------- claims
Dispatched == {files[k] : k \in 1..submitted}
Ended(outcomes) == {p \in Paths : task[p] \in outcomes}

\* C1: at any moment the number of upload() calls that have started and not
\* yet returned or raised is at most the configured number of parallel
\* uploads, for each of the values 1..6
C1_ConcurrencyBound ==
  /\ parallel_uploads \in 1..6
  /\ Cardinality(Running) <= parallel_uploads

\* six uploads in flight with six workers, and a seventh waiting
C1_Witness ==
  /\ parallel_uploads = 6
  /\ Cardinality(Running) = 6
  /\ \E p \in Paths : task[p] = "queued"

\* C2 (as claimed): an upload that raised ServerError is in failed_files,
\* and the report counts it as failed and not as uploaded
C2_FaultCountedAsFailed ==
  pc = "done" =>
    /\ \A p \in Ended({"servererror"}) : Count(failed_files, p) = 1
    /\ report.failed = Cardinality(Ended({"rejected", "servererror"}))
    /\ report.uploaded <= Cardinality(Ended({"uploaded"}))

\* C3: once the report has been produced, every upload submitted to the pool
\* has ended; none is queued or in flight, and every file of the upload list
\* was submitted
C3_ReportAfterJoin ==
  pc = "done" =>
    /\ Pending = {}
    /\ submitted = Len(files)
    /\ \A p \in Dispatched : task[p] \in Terminal

\* a report after two uploads, one of which raised
C3_Witness ==
  /\ pc = "done"
  /\ Cardinality(Dispatched) >= 2
  /\ Ended({"servererror"}) # {}
  /\ Ended({"uploaded"}) # {}

\* C4: a failed upload neither cancels nor blocks the others: every file of
\* the upload list is eventually started and finished, and once the main
\* thread has reached the pool it eventually prints the report
C4_FailureIsolation ==
  (pc = "submit") ~>
     (pc = "done" /\ \A p \in Elems(files) : task[p] \in Terminal)

\* an upload has failed while another one waits in the queue
C4_Witness ==
  \E p, q \in Paths :
    /\ task[p] \in {"rejected", "servererror", "oserror"}
    /\ task[q] = "queued"

\* C5 (as claimed): the md5 file is written exactly once per run, and only
\* after all upload workers have joined
C5_WrittenAfterJoin ==
  /\ pc = "done" => cache_writes = 1
  /\ cache_writes > 0 => pc \in {"report", "done"}

\* C5 (amended): in a run that reaches the pool or the report the md5 file
\* has been written exactly once, it is never written twice, and the write
\* comes before the first upload is submitted
C5_WrittenOnceBeforeUploads ==
  /\ cache_writes <= 1
  /\ pc \in {"submit", "report", "done"} => cache_writes = 1
  /\ cache_writes = 0 => task = NoTasks

\* the md5 file is written, with new md5s in it, and uploads are in flight
C5_Witness ==
  /\ cache_writes = 1
  /\ md5_file # loaded_int
  /\ Running # {}

\* the outcome the dedup must give a candidate
DedupSkips(p) == reupload = FALSE /\ resolved[p] \in remote

\* C6: the report has total = number of candidates before dedup, skipped =
\* number of candidates skipped at dedup, failed = number of uploads the
\* server answered with result false, uploaded = max(total - skipped -
\* failed, 0); two candidates, one skipped and one rejected, give 0/1/1/2
C6_ReportCounts ==
  pc = "done" =>
    /\ report.total = Len(directory)
    /\ report.skipped = Cardinality({p \in Elems(directory) : DedupSkips(p)})
    /\ report.failed = Cardinality(Ended({"rejected"}))
    /\ report.uploaded =
         Max(report.total - report.skipped - report.failed, 0)
    /\ (/\ Len(directory) = 2
        /\ Cardinality({p \in Elems(directory) : DedupSkips(p)}) = 1
        /\ Cardinality(Ended({"rejected"})) = 1)
       => report = [uploaded |-> 0, skipped |-> 1, failed |-> 1, total |-> 2]

\* the report of the scenario: one of two skipped, the other rejected
C6_Witness ==
  /\ pc = "done"
  /\ Len(directory) = 2
  /\ Len(skipped_files) = 1
  /\ Ended({"rejected"}) # {}
  /\ report = [uploaded |-> 0, skipped |-> 1, failed |-> 1, total |-> 2]

\* C7: after check_md5 a candidate is in skipped_files iff reupload is false
\* and its resolved md5 is in the server's list, and is in the upload list
\* otherwise; each candidate is in exactly one of the two lists, once
C7_DedupPartition ==
  pc \in {"submit", "report", "done"} =>
    \A p \in Paths :
      IF p \in Elems(directory)
      THEN /\ (Count(skipped_files, p) = 1) <=> DedupSkips(p)
           /\ (Count(files, p) = 1) <=> ~DedupSkips(p)
           /\ Count(skipped_files, p) + Count(files, p) = 1
      ELSE Count(skipped_files, p) + Count(files, p) = 0

\* the dedup has skipped one candidate and kept another
C7_Witness ==
  /\ pc = "submit"
  /\ skipped_files # <<>>
  /\ files # <<>>
  /\ submitted = 0

\* C8 (as claimed): after the md5 calculation of a candidate has failed the
\* run goes on: it is still hashing or has written the md5 file and goes on
\* to the uploads and the report
C8_HashFailureIsolated ==
  (\E p \in Paths : md5_calls[p] > 0 /\ CalcFails(p)) =>
    \/ pc = "check_md5"
    \/ pc \in {"submit", "report", "done"} /\ cache_writes = 1

\* C9 (as claimed): a second run over the same directory and the same server
\* list classifies every file as skipped and reports uploaded = 0
C9_SecondRunSkipsAll ==
  (run >= 2 /\ pc = "done") =>
    /\ Len(skipped_files) = Len(directory)
    /\ report.uploaded = 0

\* C9 (amended): a later run with the same options over the same directory,
\* with the same server list, skips exactly the files the run before it
\* skipped; when that run skipped every file, so does this one, and it
\* reports uploaded = 0
C9_SecondRunSkipsTheSame ==
  (run >= 2 /\ pc \in {"submit", "report", "done"}) =>
    /\ skipped_files = prev_skipped
    /\ (pc = "done" /\ Len(prev_skipped) = Len(directory)) =>
         /\ Len(skipped_files) = Len(directory)
         /\ files = <<>>
         /\ report.uploaded = 0

\* a second run that skipped both files, as the first did
C9_Witness ==
  /\ run = 2
  /\ pc = "done"
  /\ Len(directory) = 2
  /\ Len(prev_skipped) = 2
  /\ Len(skipped_files) = 2
  /\ report.uploaded = 0

\* C10: a candidate with a cache entry, without no_cache, resolves to the
\* cached md5 and is not read; any other candidate resolves to the md5 of its
\* content, read once, and the cache then holds that md5 under its path; so
\* resolving a path again right away gives the same md5 without a read
C10_HashResolution ==
  pc \in {"check_md5", "submit", "report", "done"} =>
    /\ \A k \in 1..pos :
         LET p == file_list[k]
         IN IF (~no_cache) /\ loaded_int[p] # NoEntry
            THEN /\ resolved[p] = loaded_int[p]
                 /\ md5_calls[p] = 0
                 /\ md5_int[p] = loaded_int[p]
            ELSE /\ resolved[p] = Md5(content[p])
                 /\ md5_calls[p] = 1
                 /\ md5_int[p] = resolved[p]
    /\ \A p \in Elems(file_list) :
         ((~no_cache) /\ (md5_int[p] # NoEntry \/ ~CalcFails(p))) =>
           LET first == ResolveHash(p, md5_int)
               second == ResolveHash(p, first.cache)
           IN /\ second.file_md5 = first.file_md5
              /\ ~second.read
              /\ second.cache = first.cache

\* the loop has taken one md5 from the cache and calculated another
C10_Witness ==
  /\ pc = "check_md5"
  /\ ~no_cache
  /\ pos = 2
  /\ md5_calls[file_list[1]] = 0
  /\ md5_calls[file_list[2]] = 1
  /\ loaded_int[file_list[2]] = NoEntry

\* C11: during a run md5_int is the md5 file as loaded, overridden by the
\* md5s calculated in this run, each calculated at most once; the file
\* written at the end of the dedup is that mapping, so that an entry that was
\* not calculated again is kept and a calculated one holds the new md5, with
\* or without no_cache
C11_WrittenCache ==
  /\ pc = "check_md5" => md5_file = loaded_int
  /\ pc \in {"check_md5", "submit", "report", "done"} =>
       \A p \in Paths :
         /\ md5_calls[p] <= 1
         /\ md5_int[p] = IF md5_calls[p] = 1 THEN Md5(content[p])
                         ELSE loaded_int[p]
  /\ cache_writes = 1 => md5_file = md5_int

\* with no_cache: an entry replaced by a new md5, the entry of a path
\* outside the directory kept
C11_Witness ==
  /\ cache_writes = 1
  /\ no_cache
  /\ \E p \in Paths :
       /\ md5_calls[p] = 1
       /\ loaded_int[p] \notin {NoEntry, md5_file[p]}
  /\ \E q \in Paths :
       /\ q \notin Elems(directory)
       /\ md5_file[q] # NoEntry
       /\ md5_file[q] = loaded_int[q]

\* what the entries of the trees are, told without the code's string tests
Hidden(nm) == nm = <<".", "h", "i", "d", "d", "e", "n", ".", "m", "p", "3">>
Accepted(nm) ==
  nm \in {<<"a", ".", "m", "p", "3">>,
          <<"b", ".", "f", "l", "a", "c">>,
          <<".", "h", "i", "d", "d", "e", "n", ".", "m", "p", "3">>}
     \cup {<<ToString(p), ".", "m", "p", "3">> : p \in Paths}

\* the entry and every directory between it and the root are not hidden
RECURSIVE Visible(_, _)
Visible(t, k) ==
  /\ ~Hidden(t[k].name)
  /\ t[k].parent = Root \/ Visible(t, t[k].parent)

\* the entry lies in a hidden directory, directly or further down
RECURSIVE BeneathHidden(_, _)
BeneathHidden(t, k) ==
  /\ t[k].parent # Root
  /\ Hidden(t[t[k].parent].name) \/ BeneathHidden(t, t[k].parent)

Candidates(t) ==
  {k \in Paths : t[k].kind = "file" /\ Visible(t, k) /\ Accepted(t[k].name)}

\* C12 (as claimed): load_files reports exactly the regular files that have
\* an accepted extension, are not hidden and are reached through directories
\* that are not hidden, each once, and never a directory; the tree of the
\* scenario gives exactly a.mp3 and b.flac
C12_ScannerOutput ==
  pc \in {"confirm", "declined", "prepare_upload"} =>
    /\ Elems(files) = Candidates(tree)
    /\ Len(files) = Cardinality(Candidates(tree))
    /\ tree = ScenarioTree => Elems(files) = {1, 2}

\* C13: no reported path has an extension outside the accepted set, none has
\* a name that starts with a dot, and none lies beneath a hidden directory
C13_ScannerExclusions ==
  \A i \in 1..Len(files) :
    /\ tree[files[i]] # Absent
    /\ Accepted(tree[files[i]].name)
    /\ ~Hidden(tree[files[i]].name)
    /\ ~BeneathHidden(tree, files[i])

\* a file is reported while another accepted file, in a hidden directory,
\* and an entry with another extension are not
C13_Witness ==
  /\ pc = "confirm"
  /\ files # <<>>
  /\ \E k \in Paths :
       /\ tree[k].kind = "file"
       /\ Accepted(tree[k].name)
       /\ ~Hidden(tree[k].name)
       /\ BeneathHidden(tree, k)
       /\ k \notin Elems(files)

\* C14: after the workers have joined, failed_files holds exactly the
\* submitted files whose upload was answered with result false, each once,
\* whatever the order in which the workers ended
C14_FailedExactlyRejected ==
  pc \in {"report", "done"} =>
    /\ \A p \in Paths :
         Count(failed_files, p) = IF task[p] = "rejected" THEN 1 ELSE 0
    /\ Elems(failed_files) \subseteq Dispatched
    /\ Len(failed_files) = Cardinality(Ended({"rejected"}))

\* three rejected uploads are recorded, not in the order of submission
C14_Witness ==
  /\ pc = "done"
  /\ Len(failed_files) >= 3
  /\ failed_files[1] > failed_files[2]

\* C15: a file is submitted at most once and upload() is called at most once
\* for it; once the pool is done every file left by the dedup was submitted
\* and uploaded exactly once, and a skipped file never
C15_AtMostOnce ==
  /\ \A p \in Paths :
       /\ submit_calls[p] <= 1
       /\ upload_calls[p] <= submit_calls[p]
       /\ p \in Elems(skipped_files) => submit_calls[p] = 0
  /\ pc \in {"report", "done"} =>
       \A p \in Paths :
         /\ submit_calls[p] = Count(files, p)
         /\ upload_calls[p] = submit_calls[p]

\* one file skipped, another one uploaded
C15_Witness ==
  /\ pc = "done"
  /\ skipped_files # <<>>
  /\ \E p \in Paths : upload_calls[p] = 1 /\ task[p] \in Terminal

\* C16: the server's md5 list is fetched once per run, before the first
\* dedup decision, and md5_ext stays that list; no upload is submitted
\* before the last dedup decision is made
C16_ManifestSnapshot ==
  /\ ext_loads <= 1
  /\ (pos > 0 \/ pc \in {"check_md5", "submit", "report", "done"}) =>
       /\ ext_loads = 1
       /\ md5_ext = remote
  /\ task # NoTasks =>
       /\ pos = Len(file_list)
       /\ pc \in {"submit", "report", "done"}
       /\ \A p \in Elems(file_list) :
            (p \in Elems(skipped_files)) <=> DedupSkips(p)

\* uploads in flight after a dedup that has skipped a file
C16_Witness ==
  /\ ext_loads = 1
  /\ md5_ext # {}
  /\ skipped_files # <<>>
  /\ Running # {}

\* C17: a step of an upload worker leaves the md5 cache, the md5 file, the
\* server's md5 list, the upload list and the skipped list as they are, and
\* changes failed_files at most by appending the file it uploads
C17_WorkerFrame ==
  [][(\E p \in Paths : task[p] \in {"queued", "running"} /\ task'[p] # task[p])
       => /\ md5_int' = md5_int
          /\ md5_file' = md5_file
          /\ md5_ext' = md5_ext
          /\ files' = files
          /\ skipped_files' = skipped_files
          /\ \/ failed_files' = failed_files
             \/ \E p \in Paths :
                  /\ task[p] = "running"
                  /\ task'[p] # task[p]
                  /\ failed_files' = Append(failed_files, p)]_vars

\* a worker has recorded a failure while another upload is in flight
C17_Witness ==
  /\ pc = "submit"
  /\ failed_files # <<>>
  /\ \E p \in Running : p \notin Elems(failed_files)

\* C18 (as claimed): with no candidates the dedup leaves both lists empty,
\* nothing is submitted, and the run goes on to the report 0/0/0/0
C18_EmptyRunReports ==
  (Len(directory) = 0 /\ ext_loads = 1 /\ pc # "server_error") =>
    /\ pc \in {"check_md5", "report", "done"}
    /\ files = <<>>
    /\ skipped_files = <<>>
    /\ task = NoTasks
    /\ pc = "done" => report = NoReport

\* C19: in the report uploaded + skipped + failed = total, skipped + failed
\* is at most total, and no file is both skipped and failed
C19_CountsAddUp ==
  pc = "done" =>
    /\ report.uploaded + report.skipped + report.failed = report.total
    /\ report.skipped + report.failed <= report.total
    /\ Elems(skipped_files) \cap Elems(failed_files) = {}
    /\ Elems(skipped_files) \cup Elems(failed_files) \subseteq Elems(directory)

\* a report in which skipped and failed make up the whole total
C19_Witness ==
  /\ pc = "done"
  /\ report.total = 2
  /\ report.failed >= 1
  /\ report.skipped + report.failed = 2
  /\ report.uploaded = 0

\* C20: without no_cache, a candidate with a cache entry is skipped iff
\* reupload is false and the cached md5 is in the server's list, whatever its
\* content is now; it is not read and its cache entry stays
C20_CachedDecision ==
  pc \in {"check_md5", "submit", "report", "done"} =>
    \A k \in 1..pos :
      LET p == file_list[k]
      IN ((~no_cache) /\ loaded_int[p] # NoEntry) =>
           /\ (p \in Elems(skipped_files)) <=>
                (reupload = FALSE /\ loaded_int[p] \in remote)
           /\ md5_calls[p] = 0
           /\ md5_int[p] = loaded_int[p]
           /\ cache_writes = 1 => md5_file[p] = loaded_int[p]

\* a file is skipped for its cached md5 although the md5 of its content is
\* not in the server's list
C20_Witness ==
  /\ cache_writes = 1
  /\ \E p \in Elems(skipped_files) :
       /\ content[p] \in Contents
       /\ Md5(content[p]) \notin remote
       /\ loaded_int[p] \in remote
       /\ md5_file[p] = loaded_int[p]

====
